---- MODULE Spec2Model ----
(***************************************************************************)
(* A model of the document pipeline of src/app.py: download_pdf (share     *)
(* link resolution, streaming download into researchers/{email}/{title}    *)
(* .pdf), the CerebrasLLM session (model listing, model selection, chat    *)
(* completion, conversation history), extract_text_with_pdfminer,          *)
(* summarize_pdf_with_cerebras and get_ai_summary.                         *)
(*                                                                         *)
(* Text is a sequence of one-character strings, so that parsing, joining   *)
(* and slicing are computed and not assumed.  A file is a sequence of      *)
(* bytes; a response body is a sequence of chunks.                         *)
(***************************************************************************)
EXTENDS Integers, Sequences, FiniteSets, TLC

\* ------------------------------------------------------------------------
\* Bounds of the model
\* ------------------------------------------------------------------------
\* most path segments of a share link
MaxSegs == 3
\* most parameters of a share link's query string
MaxParams == 2
\* most chunks of a response body
MaxChunks == 2
\* most download_pdf invocations in one behaviour of SpecDownload
MaxCalls == 2
\* request-handling threads
NumProcs == 2

Procs == 1..NumProcs

\* Python's None, as a text no link can produce
None == <<"<None>">>

\* ------------------------------------------------------------------------
\* Text helpers: str.find, str.split, `in`, str.replace
\* ------------------------------------------------------------------------
\* s[i:] with a 1-based i
From(s, i) == SubSeq(s, i, Len(s))

\* s.startswith(t)
StartsWith(s, t) == Len(s) >= Len(t) /\ SubSeq(s, 1, Len(t)) = t

\* s.find(t): the 1-based index of the first occurrence of t in s, 0 if none
Find(s, t) ==
    LET hits == {i \in 1..(Len(s) - Len(t) + 1) : SubSeq(s, i, i + Len(t) - 1) = t}
    IN  IF hits = {} THEN 0 ELSE CHOOSE i \in hits : \A j \in hits : i <= j

\* t in s
Contains(s, t) == Find(s, t) # 0

RECURSIVE Split(_, _)
\* s.split(c) for a one-character separator c
Split(s, c) ==
    LET i == Find(s, <<c>>)
    IN  IF i = 0 THEN <<s>>
        ELSE <<SubSeq(s, 1, i - 1)>> \o Split(From(s, i + 1), c)

\* s.split(c, 1)
Split1(s, c) ==
    LET i == Find(s, <<c>>)
    IN  IF i = 0 THEN <<s>> ELSE <<SubSeq(s, 1, i - 1), From(s, i + 1)>>

\* s.replace('+', ' '), the decoding parse_qs applies to names and values
\* (percent escapes are outside the alphabet of the model)
Unquote(s) == [i \in 1..Len(s) |-> IF s[i] = "+" THEN " " ELSE s[i]]

RECURSIVE Concat(_)
\* the concatenation of a sequence of texts
Concat(ss) == IF ss = <<>> THEN <<>> ELSE Head(ss) \o Concat(Tail(ss))

\* ------------------------------------------------------------------------
\* urllib.parse.urlparse and parse_qs, as download_pdf uses them
\* ------------------------------------------------------------------------
Letters == {"s", "h", "f", "d", "X", "i", "A", "B"}
SchemeChars == Letters \cup {"+"}

\* the smallest element of a non-empty set of numbers
Least(S) == CHOOSE i \in S : \A j \in S : i <= j

\* urlsplit, last stage: u is what follows scheme and netloc; the fragment
\* is cut at the first '#', then the query at the first '?'
SplitPath(scheme, netloc, u, h) ==
    [scheme |-> scheme, netloc |-> netloc,
     fragment |-> IF h = 0 THEN <<>> ELSE From(u, h + 1),
     path |-> Split1(IF h = 0 THEN u ELSE SubSeq(u, 1, h - 1), "?")[1],
     query |-> Concat(Tail(Split1(IF h = 0 THEN u ELSE SubSeq(u, 1, h - 1), "?")))]

\* urlsplit, the netloc: u starts with "//" and the netloc runs up to the
\* first of '/', '?', '#'
SplitNetloc(scheme, u, delims) ==
    IF delims = {}
    THEN SplitPath(scheme, From(u, 3), <<>>, 0)
    ELSE SplitPath(scheme, SubSeq(u, 3, Least(delims) - 1), From(u, Least(delims)),
                   Find(From(u, Least(delims)), <<"#">>))

\* urlsplit, after the scheme
AfterScheme(scheme, u) ==
    IF StartsWith(u, <<"/", "/">>)
    THEN SplitNetloc(scheme, u, {k \in 3..Len(u) : u[k] \in {"/", "?", "#"}})
    ELSE SplitPath(scheme, <<>>, u, Find(u, <<"#">>))

\* urlsplit, the scheme: the text before the first ':' when it starts with
\* a letter and consists of scheme characters
HasScheme(url, i) ==
    /\ i > 1
    /\ url[1] \in Letters
    /\ \A k \in 1..(i - 1) : url[k] \in SchemeChars

\* urlparse(url): scheme, netloc, path, query, fragment
UrlParse(url) ==
    IF HasScheme(url, Find(url, <<":">>))
    THEN AfterScheme(SubSeq(url, 1, Find(url, <<":">>) - 1), From(url, Find(url, <<":">>) + 1))
    ELSE AfterScheme(<<>>, url)

RECURSIVE ParseQsl(_)
\* parse_qsl over the '&'-separated fields: a field without '=' or with a
\* blank value is dropped (keep_blank_values is False); the rest become
\* <<name, value>> pairs, in order, decoded
ParseQsl(fields) ==
    IF fields = <<>> THEN <<>>
    ELSE LET nv == Split1(Head(fields), "=")
             rest == ParseQsl(Tail(fields))
         IN  IF Len(nv) = 2 /\ Len(nv[2]) > 0
             THEN <<<<Unquote(nv[1]), Unquote(nv[2])>>>> \o rest
             ELSE rest

\* the positions of name among the pairs
Positions(pairs, name) == {k \in 1..Len(pairs) : pairs[k][1] = name}

\* dict.get(name, [None])[0] over the pairs of parse_qsl
GetFirst(pairs, idx) == IF idx = {} THEN None ELSE pairs[Least(idx)][2]

\* dict.get(name, [None])[-1]
GetLast(pairs, idx) ==
    IF idx = {} THEN None ELSE pairs[CHOOSE k \in idx : \A j \in idx : k >= j][2]

\* the last kept value of name instead of the first
ParseQsGetLast(query, name) ==
    GetLast(ParseQsl(Split(query, "&")),
            Positions(ParseQsl(Split(query, "&")), name))

\* parse_qs(query).get(name, [None])[0]: the first kept value of name
ParseQsGetFirst(query, name) ==
    GetFirst(ParseQsl(Split(query, "&")),
             Positions(ParseQsl(Split(query, "&")), name))

\* a test that takes only the empty text for a missing identifier
FalsyOnlyEmpty(file_id) == file_id = <<>>

\* not file_id
Falsy(file_id) == file_id = None \/ file_id = <<>>

\* the fixed export endpoint of download_pdf, one literal
ExportEndpoint == <<"https://drive.google.com/uc?export=download&id=">>

\* line 502: the result of the resolution; raised is TRUE when
\* path.split('/')[3] raised IndexError
Resolved(raised, file_id) ==
    [raised |-> raised,
     file_id |-> IF raised THEN None ELSE file_id,
     download_url |-> IF raised \/ Falsy(file_id) THEN None
                      ELSE ExportEndpoint \o file_id]

\* line 495: parsed_url.path.split('/')[3] if '/d/' in parsed_url.path else None
FromPath(path, comps) ==
    IF Contains(path, <<"/", "d", "/">>)
    THEN (IF Len(comps) < 4 THEN Resolved(TRUE, None) ELSE Resolved(FALSE, comps[4]))
    ELSE Resolved(FALSE, None)

\* lines 492-495: the identifier of the query, else the one of the path
FromQuery(parsed_url, file_id) ==
    IF Falsy(file_id)
    THEN FromPath(parsed_url.path, Split(parsed_url.path, "/"))
    ELSE Resolved(FALSE, file_id)

\* lines 491-502: the identifier and the download URL of a share link
ResolveLink(drive_link) ==
    FromQuery(UrlParse(drive_link),
              ParseQsGetFirst(UrlParse(drive_link).query, <<"i", "d">>))

\* ------------------------------------------------------------------------
\* The share links the model submits: composed from parts, then flattened
\* to the text download_pdf receives
\* ------------------------------------------------------------------------
Segs == {<<"f">>, <<"d">>, <<"X">>}

\* query fields: id=A, id=A+B, id= (blank), id (no '='), x=B
Fields ==
    { [name |-> <<"i", "d">>, eq |-> TRUE,  value |-> <<"A">>],
      [name |-> <<"i", "d">>, eq |-> TRUE,  value |-> <<"A", "+", "B">>],
      [name |-> <<"i", "d">>, eq |-> TRUE,  value |-> <<>>],
      [name |-> <<"i", "d">>, eq |-> FALSE, value |-> <<>>],
      [name |-> <<"x">>,      eq |-> TRUE,  value |-> <<"B">>] }

SeqsUpTo(S, n) == UNION {[1..k -> S] : k \in 0..n}

\* a link with or without "s://", a path, a query and possibly a fragment
\* that itself looks like a path and a query
LinkParts ==
    [scheme : BOOLEAN, segs : SeqsUpTo(Segs, MaxSegs),
     fields : SeqsUpTo(Fields, MaxParams), frag : BOOLEAN]

RenderField(f) == f.name \o (IF f.eq THEN <<"=">> \o f.value ELSE <<>>)

RECURSIVE Join(_, _)
\* sep.join(ss)
Join(ss, sep) ==
    IF ss = <<>> THEN <<>>
    ELSE IF Len(ss) = 1 THEN Head(ss)
    ELSE Head(ss) \o sep \o Join(Tail(ss), sep)

Render(parts) ==
    (IF parts.scheme THEN <<"s", ":", "/", "/", "h">> ELSE <<"h">>)
    \o Concat([k \in 1..Len(parts.segs) |-> <<"/">> \o parts.segs[k]])
    \o (IF parts.fields = <<>> THEN <<>>
        ELSE <<"?">> \o Join([k \in 1..Len(parts.fields) |-> RenderField(parts.fields[k])], <<"&">>))
    \o (IF parts.frag THEN <<"#", "/", "d", "/", "B", "?", "i", "d", "=", "B">> ELSE <<>>)

\* the links of the link-resolution specification, and the two of them the
\* download specification reuses: s://h/f/d/X, and a link with no pattern
AllParts == LinkParts
FewParts ==
    { [scheme |-> TRUE, segs |-> <<<<"f">>, <<"d">>, <<"X">>>>, fields |-> <<>>, frag |-> FALSE],
      [scheme |-> TRUE, segs |-> <<<<"f">>>>, fields |-> <<>>, frag |-> TRUE] }

Emails == {"e1"}
Titles == {"t1", "t2"}

\* ------------------------------------------------------------------------
\* Response bodies and the file system
\* ------------------------------------------------------------------------
\* what iter_content can yield: chunks of bytes, an empty chunk included
Chunks == {<<>>, <<"a">>, <<"b">>}
Bodies == SeqsUpTo(Chunks, MaxChunks)
OneBody == {<<<<"a">>>>}

\* f"researchers/{email}" and os.path.join(parent_folder, f"{title}.pdf")
ParentFolder(email) == <<"researchers", email>>
NewFilename(title) == <<title, ".pdf">>
TargetPath(email, title) == <<ParentFolder(email), NewFilename(title)>>

Paths == {TargetPath(e, t) : e \in Emails, t \in Titles}

VARIABLES
    pc,          \* where each thread is inside download_pdf
    frame,       \* the locals of each thread's download_pdf invocation
    dirs,        \* the directories that exist
    names,       \* path -> inode, for the files that exist
    inodes,      \* inode -> content (a sequence of bytes)
    http_log,    \* the URLs of the GET requests download_pdf has issued
    completed,   \* path -> the bytes of the last download written in full
    ncalls       \* download_pdf invocations so far

dvars == <<pc, frame, dirs, names, inodes, http_log, completed, ncalls>>

NoFrame ==
    [parts |-> [scheme |-> FALSE, segs |-> <<>>, fields |-> <<>>, frag |-> FALSE],
     drive_link |-> <<>>, email |-> "", title |-> "",
     file_id |-> None, download_url |-> None,
     status |-> 0, body |-> <<>>, stream |-> <<>>,
     fd |-> 0, pos |-> 0, outcome |-> "",
     pre_dirs |-> {}, pre_names |-> <<>>, pre_inodes |-> <<>>, pre_log |-> <<>>]

\* os.path.exists(target_path)
Exists(path) == path \in DOMAIN names

\* the inodes some thread holds open
OpenInodes(fr, pcs) == {fr[p].fd : p \in {q \in Procs : pcs[q] = "write"}}

\* an inode lives while it has a name or an open descriptor
Reap(ns, ins, open) ==
    LET live == {ns[n] : n \in DOMAIN ns} \cup open
    IN  [i \in (DOMAIN ins) \cap live |-> ins[i]]

FreshInode == CHOOSE i \in 1..(Cardinality(DOMAIN inodes) + 1) : i \notin DOMAIN inodes

\* a write in append mode: the chunk goes to the end of the file
WriteAtEnd(old, pos, chunk) == old \o chunk

\* file.write(chunk) at position pos of a file whose content is old
WriteAt(old, pos, chunk) ==
    LET n == IF Len(old) > pos + Len(chunk) THEN Len(old) ELSE pos + Len(chunk)
    IN  [k \in 1..n |->
            IF k > pos /\ k <= pos + Len(chunk) THEN chunk[k - pos]
            ELSE IF k <= Len(old) THEN old[k]
            ELSE "0"]

\* the bytes of a whole body
Flatten(body) == Concat(body)

\* ------------------------------------------------------------------------
\* download_pdf(drive_link, email, title), one step per statement that
\* reads or changes shared state
\* ------------------------------------------------------------------------
\* a request handler calls download_pdf (createNewPost, resubmit_article)
Start(p, Parts, parts, email, title) ==
    /\ pc[p] = "idle"
    /\ ncalls < MaxCalls
    /\ parts \in Parts
    /\ ncalls' = ncalls + 1
    /\ pc' = [pc EXCEPT ![p] = "resolve"]
    /\ frame' = [frame EXCEPT ![p] =
                    [NoFrame EXCEPT !.parts = parts, !.drive_link = Render(parts),
                                    !.email = email, !.title = title,
                                    !.pre_dirs = dirs, !.pre_names = names,
                                    !.pre_inodes = inodes, !.pre_log = http_log]]
    /\ UNCHANGED <<dirs, names, inodes, http_log, completed>>

\* lines 491-502
Resolve(p) ==
    /\ pc[p] = "resolve"
    /\ LET r == ResolveLink(frame[p].drive_link)
       IN  IF r.raised
           THEN /\ pc' = [pc EXCEPT ![p] = "done"]
                /\ frame' = [frame EXCEPT ![p].outcome = "error"]
           ELSE IF Falsy(r.file_id)
           THEN /\ pc' = [pc EXCEPT ![p] = "done"]
                /\ frame' = [frame EXCEPT ![p].file_id = r.file_id,
                                          ![p].outcome = "invalid_link"]
           ELSE /\ pc' = [pc EXCEPT ![p] = "get"]
                /\ frame' = [frame EXCEPT ![p].file_id = r.file_id,
                                          ![p].download_url = r.download_url]
    /\ UNCHANGED <<dirs, names, inodes, http_log, completed, ncalls>>

\* a status test that lets every status below 500 through
StatusOkBelow500(status) == status < 500

\* line 506: response.status_code != 200 is the failure
StatusOk(status) == status = 200

\* a GET that is issued once more after a first answer other than 200
GetRetrying(p, BodySet) ==
    /\ pc[p] = "get"
    /\ http_log' = Append(http_log, frame[p].download_url)
    /\ \/ /\ pc' = [pc EXCEPT ![p] = "done"]
          /\ frame' = [frame EXCEPT ![p].outcome = "error"]
       \/ \E status \in {200, 404}, body \in BodySet :
            IF ~StatusOk(status) /\ Len(http_log) = Len(frame[p].pre_log)
            THEN /\ pc' = pc
                 /\ frame' = [frame EXCEPT ![p].status = status]
            ELSE IF ~StatusOk(status)
            THEN /\ pc' = [pc EXCEPT ![p] = "done"]
                 /\ frame' = [frame EXCEPT ![p].status = status,
                                           ![p].outcome = "http_failed"]
            ELSE /\ pc' = [pc EXCEPT ![p] = "mkdir"]
                 /\ frame' = [frame EXCEPT ![p].status = status,
                                           ![p].body = body, ![p].stream = body]
    /\ UNCHANGED <<dirs, names, inodes, completed, ncalls>>

\* lines 505-508: the GET is issued; it raises, or answers with a status
\* and a body
Get(p, BodySet) ==
    /\ pc[p] = "get"
    /\ http_log' = Append(http_log, frame[p].download_url)
    /\ \/ /\ pc' = [pc EXCEPT ![p] = "done"]
          /\ frame' = [frame EXCEPT ![p].outcome = "error"]
       \/ \E status \in {200, 404}, body \in BodySet :
            IF ~StatusOk(status)
            THEN /\ pc' = [pc EXCEPT ![p] = "done"]
                 /\ frame' = [frame EXCEPT ![p].status = status,
                                           ![p].outcome = "http_failed"]
            ELSE /\ pc' = [pc EXCEPT ![p] = "mkdir"]
                 /\ frame' = [frame EXCEPT ![p].status = status,
                                           ![p].body = body, ![p].stream = body]
    /\ UNCHANGED <<dirs, names, inodes, completed, ncalls>>

\* lines 511-512: os.makedirs(parent_folder, exist_ok=True)
MakeDirs(p) ==
    /\ pc[p] = "mkdir"
    /\ dirs' = dirs \cup {<<"researchers">>, ParentFolder(frame[p].email)}
    /\ pc' = [pc EXCEPT ![p] = "exists"]
    /\ UNCHANGED <<frame, names, inodes, http_log, completed, ncalls>>

\* line 519: os.path.exists(target_path)
CheckExists(p) ==
    /\ pc[p] = "exists"
    /\ pc' = [pc EXCEPT ![p] =
                IF Exists(TargetPath(frame[p].email, frame[p].title))
                THEN "remove" ELSE "open"]
    /\ UNCHANGED <<frame, dirs, names, inodes, http_log, completed, ncalls>>

\* line 521: os.remove(target_path), FileNotFoundError if it is gone
Remove(p) ==
    /\ pc[p] = "remove"
    /\ LET path == TargetPath(frame[p].email, frame[p].title)
       IN  IF Exists(path)
           THEN LET ns == [n \in (DOMAIN names) \ {path} |-> names[n]]
                IN  /\ names' = ns
                    /\ inodes' = Reap(ns, inodes, OpenInodes(frame, pc))
                    /\ pc' = [pc EXCEPT ![p] = "open"]
                    /\ UNCHANGED frame
           ELSE /\ pc' = [pc EXCEPT ![p] = "done"]
                /\ frame' = [frame EXCEPT ![p].outcome = "error"]
                /\ UNCHANGED <<names, inodes>>
    /\ UNCHANGED <<dirs, http_log, completed, ncalls>>

\* line 521 where a file that is open cannot be deleted (Windows):
\* os.remove raises PermissionError while another thread writes the file
RemoveDenied(p) ==
    /\ pc[p] = "remove"
    /\ LET path == TargetPath(frame[p].email, frame[p].title)
       IN  /\ Exists(path)
           /\ names[path] \in OpenInodes(frame, pc)
    /\ pc' = [pc EXCEPT ![p] = "done"]
    /\ frame' = [frame EXCEPT ![p].outcome = "error"]
    /\ UNCHANGED <<dirs, names, inodes, http_log, completed, ncalls>>

\* line 524: open(target_path, 'wb') creates the file, or truncates it
Open(p) ==
    /\ pc[p] = "open"
    /\ LET path == TargetPath(frame[p].email, frame[p].title)
           ino == IF Exists(path) THEN names[path] ELSE FreshInode
       IN  /\ names' = IF Exists(path) THEN names ELSE names @@ (path :> ino)
           /\ inodes' = IF Exists(path) THEN [inodes EXCEPT ![ino] = <<>>]
                        ELSE inodes @@ (ino :> <<>>)
           /\ frame' = [frame EXCEPT ![p].fd = ino, ![p].pos = 0]
    /\ pc' = [pc EXCEPT ![p] = "write"]
    /\ UNCHANGED <<dirs, http_log, completed, ncalls>>

\* lines 525-527: the next chunk arrives; a non-empty chunk is written
WriteChunk(p) ==
    /\ pc[p] = "write"
    /\ frame[p].stream # <<>>
    /\ LET chunk == Head(frame[p].stream)
       IN  IF chunk # <<>>
           THEN /\ inodes' = [inodes EXCEPT ![frame[p].fd] =
                                 WriteAt(inodes[frame[p].fd], frame[p].pos, chunk)]
                /\ frame' = [frame EXCEPT ![p].stream = Tail(@),
                                          ![p].pos = @ + Len(chunk)]
           ELSE /\ frame' = [frame EXCEPT ![p].stream = Tail(@)]
                /\ UNCHANGED inodes
    /\ UNCHANGED <<pc, dirs, names, http_log, completed, ncalls>>

\* lines 525-531: iter_content or file.write raises while chunks remain;
\* the with block closes the file and the except clause prints the error
StreamRaises(p) ==
    /\ pc[p] = "write"
    /\ frame[p].stream # <<>>
    /\ pc' = [pc EXCEPT ![p] = "done"]
    /\ frame' = [frame EXCEPT ![p].outcome = "error"]
    /\ inodes' = Reap(names, inodes, OpenInodes(frame, pc) \ {frame[p].fd})
    /\ UNCHANGED <<dirs, names, http_log, completed, ncalls>>

\* lines 527-529: the body is exhausted, the file is closed
Close(p) ==
    /\ pc[p] = "write"
    /\ frame[p].stream = <<>>
    /\ pc' = [pc EXCEPT ![p] = "done"]
    /\ frame' = [frame EXCEPT ![p].outcome = "stored"]
    /\ inodes' = Reap(names, inodes, OpenInodes(frame, pc) \ {frame[p].fd})
    /\ completed' = [completed EXCEPT
                        ![TargetPath(frame[p].email, frame[p].title)] = Flatten(frame[p].body)]
    /\ UNCHANGED <<dirs, names, http_log, ncalls>>

\* download_pdf returns (None on every path) to the request handler
Return(p) ==
    /\ pc[p] = "done"
    /\ pc' = [pc EXCEPT ![p] = "idle"]
    /\ frame' = [frame EXCEPT ![p] = NoFrame]
    /\ UNCHANGED <<dirs, names, inodes, http_log, completed, ncalls>>

\* lines 499, 508 and 529-531: what download_pdf returns to its caller,
\* whatever the outcome (no path returns a value or raises)
ReturnValue(outcome) == None

\* lines 420-421: createNewPost after download_pdf(dLink, email, title)
\* returned ret
CreateNewPostResult(ret) == 1

\* no download_pdf invocation is in progress
Quiet == \A p \in Procs : pc[p] = "idle"

DInit ==
    /\ pc = [p \in Procs |-> "idle"]
    /\ frame = [p \in Procs |-> NoFrame]
    /\ dirs = {}
    /\ names = <<>>
    /\ inodes = <<>>
    /\ http_log = <<>>
    /\ completed = [path \in Paths |-> None]
    /\ ncalls = 0

\* ------------------------------------------------------------------------
\* CerebrasLLM: the session, the model listing and the chat completion
\* ------------------------------------------------------------------------
\* most entries of a model listing
MaxCatalog == 3
\* most model-listing requests in one behaviour
MaxRequests == 2

\* line 107
preferred_models == <<"llama3.1-70b", "llama-3.3-70b", "llama3.1-8b">>

ModelIds == {"llama3.1-70b", "llama-3.3-70b", "llama3.1-8b", "modelA", "modelB"}

\* an entry of the listing's "data" array, with or without an "id" field
Entries == {[has_id |-> TRUE, id |-> m] : m \in ModelIds} \cup {[has_id |-> FALSE, id |-> ""]}

\* what GET {base}models can do: raise (network error, timeout), answer
\* with a body that is not JSON, with JSON that has no "data" field, or
\* with JSON whose "data" is a list of entries
Listings ==
    {[kind |-> k, data |-> <<>>] : k \in {"raise", "notjson", "nodata"}}
    \cup {[kind |-> "data", data |-> d] : d \in SeqsUpTo(Entries, MaxCatalog)}
FewListings ==
    { [kind |-> "raise", data |-> <<>>],
      [kind |-> "data", data |-> <<>>],
      [kind |-> "data", data |-> <<[has_id |-> TRUE, id |-> "modelA"],
                                   [has_id |-> TRUE, id |-> "llama3.1-8b"]>>] }

Marker == <<"<", "/", "t", "h", "i", "n", "k", ">">>
Whitespace == {" ", "\n", "\t"}

\* the content strings a completion can carry
Replies ==
    { <<"w">>, <<>>,
      <<"r">> \o Marker \o <<" ", "w", " ">> }

\* what POST {base}chat/completions can do: raise, or answer with a status
\* and a body that is not JSON ("notjson"), JSON with "choices": []
\* ("nochoice"), JSON without a content ("nocontent") or JSON with one
Completions ==
    {[kind |-> "raise", status |-> 0, json |-> "notjson", content |-> <<>>]}
    \cup {[kind |-> "response", status |-> 500, json |-> "notjson", content |-> <<>>]}
    \cup {[kind |-> "response", status |-> 200, json |-> j, content |-> <<>>] :
             j \in {"notjson", "nochoice", "nocontent"}}
    \cup {[kind |-> "response", status |-> 200, json |-> "content", content |-> r] :
             r \in Replies}
FewCompletions ==
    { [kind |-> "response", status |-> 500, json |-> "notjson", content |-> <<>>],
      [kind |-> "response", status |-> 200, json |-> "content", content |-> <<"w">>] }

Prompts == {<<"S">>, <<"T">>}
UserInputs == {<<"p">>, <<"q">>}

\* a listing that falls back to a default model when it fails
GetAvailableModelsDefault(listing) ==
    IF listing.kind # "data" THEN <<"llama3.1-8b">>
    ELSE IF \E k \in 1..Len(listing.data) : ~listing.data[k].has_id THEN <<"llama3.1-8b">>
    ELSE [k \in 1..Len(listing.data) |-> listing.data[k].id]

\* lines 83-93: the ids of the listing; [] when the request raises, the
\* body is not JSON or an entry has no "id"
GetAvailableModels(listing) ==
    IF listing.kind # "data" THEN <<>>
    ELSE IF \E k \in 1..Len(listing.data) : ~listing.data[k].has_id THEN <<>>
    ELSE [k \in 1..Len(listing.data) |-> listing.data[k].id]

\* selected_model = None, among model ids
NoModel == "<None>"

RECURSIVE FirstListedPreferred(_, _)
\* the loop run over the listing instead: the first listed model that is preferred
FirstListedPreferred(preferred, models) ==
    IF models = <<>> THEN NoModel
    ELSE IF \E k \in 1..Len(preferred) : preferred[k] = Head(models) THEN Head(models)
    ELSE FirstListedPreferred(preferred, Tail(models))

RECURSIVE FirstPreferred(_, _)
\* lines 108-113: the loop over preferred_models; None if none is listed
FirstPreferred(preferred, models) ==
    IF preferred = <<>> THEN NoModel
    ELSE IF \E k \in 1..Len(models) : models[k] = Head(preferred) THEN Head(preferred)
    ELSE FirstPreferred(Tail(preferred), models)

\* lines 107-117
SelectModel(models) ==
    LET selected_model == FirstPreferred(preferred_models, models)
    IN  IF selected_model = NoModel THEN models[1] ELSE selected_model

RECURSIVE LStrip(_)
LStrip(s) == IF s # <<>> /\ Head(s) \in Whitespace THEN LStrip(Tail(s)) ELSE s
RECURSIVE RStrip(_)
RStrip(s) == IF s # <<>> /\ s[Len(s)] \in Whitespace THEN RStrip(SubSeq(s, 1, Len(s) - 1)) ELSE s
\* str.strip()
Strip(s) == RStrip(LStrip(s))

\* a sanitiser that trims every reply, with or without the marker
ExtractActualResponseTrimAll(full_response) ==
    IF Contains(full_response, Marker)
    THEN Strip(From(full_response, Find(full_response, Marker) + 8))
    ELSE Strip(full_response)

\* lines 152-169
ExtractActualResponse(full_response) ==
    IF Contains(full_response, Marker)
    THEN Strip(From(full_response, Find(full_response, Marker) + 8))
    ELSE full_response

\* a reset to the empty list of line 68
InitialHistoryEmpty(prompt) == <<>>

\* lines 72-74
InitialHistory(prompt) == <<[role |-> "system", content |-> prompt]>>

\* a user turn filed under the system role
UserTurnAsSystem(user_input) == [role |-> "system", content |-> user_input]

\* line 99
UserTurn(user_input) == [role |-> "user", content |-> user_input]

\* line 142
AssistantTurn(actual_response) == [role |-> "assistant", content |-> actual_response]

VARIABLES
    system_prompt,          \* self.system_prompt
    conversation_history,   \* self.conversation_history
    n_gets,                 \* GET {base}models requests issued so far
    post_log,               \* the bodies of the POST {base}chat/completions requests issued so far
    last                    \* the last operation on the session: its inputs, what the endpoint did and what it returned

svars == <<system_prompt, conversation_history, n_gets, post_log, last>>

VARIABLES
    job                     \* the invocation of get_ai_summary, extract_text_with_pdfminer or
                            \* summarize_pdf_with_cerebras under way: its position and its locals

pvars == <<job>>
vars == <<dvars, svars, pvars>>

NoListing == [kind |-> "none", data |-> <<>>]
NoCompletion == [kind |-> "none", status |-> 0, json |-> "notjson", content |-> <<>>]
NoOp == [op |-> "init", user_input |-> <<>>, listing |-> NoListing,
         completion |-> NoCompletion, ret |-> None, pre_posts |-> 0]

\* a completion taken as read as soon as it answered 200
ReadableAnyBody(completion) ==
    /\ completion.kind = "response"
    /\ completion.status = 200

\* the completion answered 200 with a body the code can read
Readable(completion) ==
    /\ completion.kind = "response"
    /\ completion.status = 200
    /\ completion.json \in {"nocontent", "content"}

\* lines 64-69: CerebrasLLM(api_key, system_prompt)
NewSession(prompt) ==
    /\ system_prompt' = prompt
    /\ conversation_history' = InitialHistory(prompt)
    /\ last' = NoOp
    /\ UNCHANGED <<n_gets, post_log>>

\* lines 71-74
ResetConversation ==
    /\ conversation_history' = InitialHistory(system_prompt)
    /\ last' = [NoOp EXCEPT !.op = "reset"]
    /\ UNCHANGED <<system_prompt, n_gets, post_log>>

\* lines 95-150: get_response(user_input), with what the endpoint does to
\* the listing request and, if one is issued, to the completion request
GetResponse(user_input, listing, completion) ==
    /\ n_gets < MaxRequests
    /\ n_gets' = n_gets + 1
    /\ LET history == Append(conversation_history, UserTurn(user_input))
           models == GetAvailableModels(listing)
           full_response == IF completion.json = "content" THEN completion.content ELSE <<>>
           actual_response == ExtractActualResponse(full_response)
       IN  IF models = <<>>
           THEN /\ conversation_history' = history
                /\ post_log' = post_log
                /\ last' = [op |-> "get_response", user_input |-> user_input,
                            listing |-> listing, completion |-> NoCompletion,
                            ret |-> None, pre_posts |-> Len(post_log)]
           ELSE /\ post_log' = Append(post_log, [model |-> SelectModel(models),
                                                 messages |-> history])
                /\ conversation_history' =
                      IF Readable(completion)
                      THEN Append(history, AssistantTurn(actual_response))
                      ELSE history
                /\ last' = [op |-> "get_response", user_input |-> user_input,
                            listing |-> listing, completion |-> completion,
                            ret |-> IF Readable(completion) THEN actual_response ELSE None,
                            pre_posts |-> Len(post_log)]
    /\ UNCHANGED system_prompt

SInit ==
    /\ system_prompt \in Prompts
    /\ conversation_history = InitialHistory(system_prompt)
    /\ n_gets = 0
    /\ post_log = <<>>
    /\ last = NoOp

\* ------------------------------------------------------------------------
\* extract_text_with_pdfminer, summarize_pdf_with_cerebras, get_ai_summary
\* ------------------------------------------------------------------------
\* most tokens of a model reply
MaxReplyTokens == 5
\* largest word budget tried on summarize_pdf_with_cerebras
MaxWords == 3

\* the null byte '\x00', one character
Nul == "NUL"

\* extract_text raised (a corrupt or password-protected file), as a text
\* no extractor returns
Raises == <<"<raises>">>

RECURSIVE Replace(_, _, _)
\* s.replace(old, new) for a one-character old
Replace(s, old, new) ==
    IF s = <<>> THEN <<>>
    ELSE (IF Head(s) = old THEN new ELSE <<Head(s)>>) \o Replace(Tail(s), old, new)

\* line 46: text.replace('\x00', '').strip()
CleanText(text) == Strip(Replace(text, Nul, <<>>))

\* a file counted as empty only below zero bytes
EmptyFileNever(file_size) == file_size < 0

\* line 36: file_size == 0
EmptyFile(file_size) == file_size = 0

\* a threshold of 9 characters
TooShortBelow9(text) == Len(text) < 9

\* line 48: len(text) < 10
TooShort(text) == Len(text) < 10

\* n characters of text
Filler(n) == [k \in 1..n |-> "x"]

\* what the extractor can return around and inside the text: whitespace
\* and null bytes, in either order
Pads == {<<>>, <<" ">>, <<Nul>>, <<"\n", Nul>>, <<Nul, " ">>}
Mids == {<<>>, <<"x", Nul, " ", "x">>}
RawLengths == {0, 6, 7, 9, 10, 46, 47, 49, 50}
RawTexts == {l \o m \o Filler(n) \o r : l \in Pads, r \in Pads, m \in Mids, n \in RawLengths}

\* a path of the store: whether a file is there, its size in bytes and what
\* extract_text does on it
NoFile == [exists |-> FALSE, size |-> 0, raw |-> Raises]
Files ==
    {NoFile, [exists |-> TRUE, size |-> 0, raw |-> Raises]}
    \cup {[exists |-> TRUE, size |-> Len(raw) + 1, raw |-> raw] : raw \in RawTexts \cup {Raises}}

RECURSIVE SplitWords(_)
\* s.split(): the words of s, separated by runs of whitespace
SplitWords(s) ==
    LET t == LStrip(s)
        ends == {k \in 1..Len(t) : k = Len(t) \/ t[k + 1] \in Whitespace}
        n == CHOOSE k \in ends : \A j \in ends : k <= j
    IN  IF t = <<>> THEN <<>>
        ELSE <<SubSeq(t, 1, n)>> \o SplitWords(From(t, n + 1))

\* one word too many kept: words[:max_words + 1]
TruncateWordsOneMore(summary, max_words) ==
    IF Len(SplitWords(summary)) > max_words
    THEN Join(SubSeq(SplitWords(summary), 1, max_words + 1), <<" ">>)
    ELSE summary

\* lines 218-220
TruncateWords(summary, max_words) ==
    IF Len(SplitWords(summary)) > max_words
    THEN Join(SubSeq(SplitWords(summary), 1, max_words), <<" ">>)
    ELSE summary

\* line 181
max_chars == 8000

\* the text cut one character late
ClipOneMore(pdf_text) ==
    IF Len(pdf_text) > max_chars THEN SubSeq(pdf_text, 1, max_chars + 1) ELSE pdf_text

\* lines 182-183: pdf_text[:max_chars]
Clip(pdf_text) ==
    IF Len(pdf_text) > max_chars THEN SubSeq(pdf_text, 1, max_chars) ELSE pdf_text

\* only a missing text is too short
TooShortToSummarizeOnlyEmpty(pdf_text) == Falsy(pdf_text)

\* line 176: not pdf_text or len(pdf_text.strip()) < 50
TooShortToSummarize(pdf_text) == Falsy(pdf_text) \/ Len(Strip(pdf_text)) < 50

Digits == <<"0", "1", "2", "3", "4", "5", "6", "7", "8", "9">>

RECURSIVE Decimal(_)
\* the decimal digits of n, as an f-string renders {n}
Decimal(n) ==
    IF n < 10 THEN <<Digits[n + 1]>>
    ELSE Decimal(n \div 10) \o <<Digits[(n % 10) + 1]>>

\* lines 187-189, one literal
SummarizerPrompt == <<"S">>

\* lines 195-206: the literal parts of the user prompt, each one element
\* of the text
PromptHead == <<"Please read the following document ... - Be approximately ">>
PromptMiddle == <<" words ... DOCUMENT:\n">>
PromptTail == <<"\n\nPlease provide the summary in English:">>

\* lines 195-206
UserPrompt(max_words, pdf_text) ==
    PromptHead \o Decimal(max_words) \o PromptMiddle \o pdf_text \o PromptTail

\* a document text whose characters tell their position
DocText(n) == [k \in 1..n |-> Digits[(k % 10) + 1]]

\* document texts around the ceiling of max_chars
LongTexts == {DocText(n) : n \in {50, 7999, 8000, 8001, 8002, 9000}}

\* the parts a model reply is made of, and the replies
ReplyTokens == {<<"w">>, <<" ">>, <<"\n">>, Marker}
ReplyTexts == {Concat(ts) : ts \in SeqsUpTo(ReplyTokens, MaxReplyTokens)}

\* the catalog and the completions of a summary whose reply is under test
OneListing == {[kind |-> "data", data |-> <<[has_id |-> TRUE, id |-> "llama3.1-8b"]>>]}
ReplyCompletions ==
    {[kind |-> "response", status |-> 200, json |-> "content", content |-> r] : r \in ReplyTexts}

\* the JSON payload of get_ai_summary: the HTTP status and, on success,
\* the summary
NoPayload == [status |-> 0, summary |-> None]

NoJob ==
    [top |-> "none", pc |-> "idle", file |-> NoFile, extractor_calls |-> 0,
     pdf_text |-> None, max_words |-> 0, clipped |-> None, sessions |-> 0,
     listing |-> NoListing, completion |-> NoCompletion,
     full_response |-> None, actual_response |-> None, summary |-> None,
     ret |-> None, payload |-> NoPayload, stages |-> <<>>]

\* line 881: extract_text_with_pdfminer returns text to its caller
ExtractReturn(j, text) ==
    IF j.top = "extract"
    THEN [j EXCEPT !.pc = "done", !.ret = text]
    ELSE [j EXCEPT !.pc = "text_check", !.pdf_text = text]

\* line 888: summarize_pdf_with_cerebras returns summary to its caller
SummarizeReturn(j, summary) ==
    IF j.top = "summarize"
    THEN [j EXCEPT !.pc = "done", !.ret = summary]
    ELSE [j EXCEPT !.pc = "summary_check", !.summary = summary]

\* lines 868-874: get_ai_summary for a post whose PDF path holds file
GetAiSummary(file) ==
    /\ job.pc = "idle"
    /\ job' = [job EXCEPT !.top = "get_ai_summary", !.pc = "exists", !.file = file]
    /\ UNCHANGED svars

\* lines 877-881
GCheckExists ==
    /\ job.pc = "exists"
    /\ job' = IF ~job.file.exists
              THEN [job EXCEPT !.pc = "done", !.payload = [status |-> 404, summary |-> None]]
              ELSE [job EXCEPT !.pc = "precheck"]
    /\ UNCHANGED svars

\* extract_text_with_pdfminer(pdf_path), called on its own
CallExtract(file) ==
    /\ job.pc = "idle"
    /\ job' = [job EXCEPT !.top = "extract", !.pc = "precheck", !.file = file]
    /\ UNCHANGED svars

\* lines 31-40: the checks before the extraction
EPrecheck ==
    /\ job.pc = "precheck"
    /\ job' = IF ~job.file.exists \/ EmptyFile(job.file.size)
              THEN ExtractReturn([job EXCEPT !.stages = Append(@, "extract")], None)
              ELSE [job EXCEPT !.pc = "extract"]
    /\ UNCHANGED svars

\* lines 43-58: extract_text(pdf_path), the cleaning and the length check
EExtract ==
    /\ job.pc = "extract"
    /\ LET j == [job EXCEPT !.extractor_calls = @ + 1, !.stages = Append(@, "extract")]
           text == CleanText(job.file.raw)
       IN  job' = IF job.file.raw = Raises \/ TooShort(text)
                  THEN ExtractReturn(j, None)
                  ELSE ExtractReturn(j, text)
    /\ UNCHANGED svars

\* lines 883-888
GTextCheck ==
    /\ job.pc = "text_check"
    /\ job' = IF Falsy(job.pdf_text)
              THEN [job EXCEPT !.pc = "done", !.payload = [status |-> 500, summary |-> None]]
              ELSE [job EXCEPT !.pc = "length_check", !.max_words = 150]
    /\ UNCHANGED svars

\* summarize_pdf_with_cerebras(pdf_text, max_words), called on its own
CallSummarize(pdf_text, max_words) ==
    /\ job.pc = "idle"
    /\ job' = [job EXCEPT !.top = "summarize", !.pc = "length_check",
                          !.pdf_text = pdf_text, !.max_words = max_words]
    /\ UNCHANGED svars

\* lines 176-178
SLengthCheck ==
    /\ job.pc = "length_check"
    /\ job' = IF TooShortToSummarize(job.pdf_text)
              THEN SummarizeReturn(job, None)
              ELSE [job EXCEPT !.pc = "build"]
    /\ UNCHANGED svars

\* lines 181-206, 214 and 99: the text is clipped, the session created,
\* the user prompt built and appended to the history as the user turn
SBuild ==
    /\ job.pc = "build"
    /\ job' = [job EXCEPT !.pc = "list", !.clipped = Clip(job.pdf_text),
                          !.sessions = @ + 1, !.stages = Append(@, "user_turn")]
    /\ system_prompt' = SummarizerPrompt
    /\ conversation_history' =
          Append(InitialHistory(SummarizerPrompt),
                 UserTurn(UserPrompt(job.max_words, Clip(job.pdf_text))))
    /\ UNCHANGED <<n_gets, post_log, last>>

\* lines 102-104: the model listing
SList(listing) ==
    /\ job.pc = "list"
    /\ n_gets' = n_gets + 1
    /\ LET j == [job EXCEPT !.listing = listing, !.stages = Append(@, "list")]
       IN  job' = IF GetAvailableModels(listing) = <<>>
                  THEN SummarizeReturn(j, None)
                  ELSE [j EXCEPT !.pc = "post"]
    /\ UNCHANGED <<system_prompt, conversation_history, post_log, last>>

\* lines 107-136 and 144-150: the model is selected and the completion
\* requested
SPost(completion) ==
    /\ job.pc = "post"
    /\ post_log' = Append(post_log,
                          [model |-> SelectModel(GetAvailableModels(job.listing)),
                           messages |-> conversation_history])
    /\ LET j == [job EXCEPT !.completion = completion, !.stages = Append(@, "post")]
       IN  job' = IF Readable(completion)
                  THEN [j EXCEPT !.pc = "sanitize",
                                 !.full_response = IF completion.json = "content"
                                                   THEN completion.content ELSE <<>>]
                  ELSE SummarizeReturn(j, None)
    /\ UNCHANGED <<system_prompt, conversation_history, n_gets, last>>

\* lines 139-143 and 216: the reply is sanitised and appended as the
\* assistant turn; get_response returns it and an empty one is a failure
SSanitize ==
    /\ job.pc = "sanitize"
    /\ LET actual_response == ExtractActualResponse(job.full_response)
           j == [job EXCEPT !.actual_response = actual_response,
                            !.stages = Append(@, "sanitize")]
       IN  /\ conversation_history' =
                 Append(conversation_history, AssistantTurn(actual_response))
           /\ job' = IF Falsy(actual_response)
                     THEN SummarizeReturn(j, None)
                     ELSE [j EXCEPT !.pc = "truncate"]
    /\ UNCHANGED <<system_prompt, n_gets, post_log, last>>

\* lines 218-223
STruncate ==
    /\ job.pc = "truncate"
    /\ job' = SummarizeReturn([job EXCEPT !.stages = Append(@, "truncate")],
                              TruncateWords(job.actual_response, job.max_words))
    /\ UNCHANGED svars

\* lines 890-897
GSummaryCheck ==
    /\ job.pc = "summary_check"
    /\ job' = IF Falsy(job.summary)
              THEN [job EXCEPT !.pc = "done", !.payload = [status |-> 500, summary |-> None]]
              ELSE [job EXCEPT !.pc = "done",
                               !.payload = [status |-> 200, summary |-> job.summary]]
    /\ UNCHANGED svars

\* ------------------------------------------------------------------------
\* Specifications
\* ------------------------------------------------------------------------
\* the session while only download_pdf runs
SessionIdle == SInit /\ system_prompt = <<"S">>

\* no summary is asked for
SummaryIdle == job = NoJob

\* the download threads while only the session runs
DownloadIdle == DInit

\* SpecDownload: download_pdf invocations that do not overlap (one thread
\* calls it again and again), over a few links, every body and every
\* outcome of the GET and of the stream
DownloadInit == DInit /\ SessionIdle /\ SummaryIdle

DownloadNext ==
    /\ \/ /\ Quiet
          /\ \E parts \in FewParts, email \in Emails, title \in Titles :
                Start(1, FewParts, parts, email, title)
       \/ Resolve(1)
       \/ Get(1, Bodies)
       \/ MakeDirs(1)
       \/ CheckExists(1)
       \/ Remove(1)
       \/ Open(1)
       \/ WriteChunk(1)
       \/ StreamRaises(1)
       \/ Close(1)
       \/ Return(1)
    /\ UNCHANGED <<svars, pvars>>

SpecDownload == DownloadInit /\ [][DownloadNext]_vars

\* the file system after download_pdf stored the body "b" for (e1, t1)
StoredBefore ==
    /\ dirs = {<<"researchers">>, ParentFolder("e1")}
    /\ names = (TargetPath("e1", "t1") :> 1)
    /\ inodes = (1 :> <<"b">>)
    /\ http_log = <<ExportEndpoint \o <<"A">>>>
    /\ completed = [path \in Paths |-> IF path = TargetPath("e1", "t1") THEN <<"b">> ELSE None]

\* SpecLinks: the last invocation of a behaviour, over every link of
\* LinkParts, on an empty store or on one that holds a file already
LinksInit ==
    /\ pc = [p \in Procs |-> "idle"]
    /\ frame = [p \in Procs |-> NoFrame]
    /\ ncalls = MaxCalls - 1
    /\ \/ /\ dirs = {} /\ names = <<>> /\ inodes = <<>> /\ http_log = <<>>
          /\ completed = [path \in Paths |-> None]
       \/ StoredBefore
    /\ SessionIdle
    /\ SummaryIdle

LinksNext ==
    /\ \/ /\ Quiet
          /\ \E parts \in AllParts : Start(1, AllParts, parts, "e1", "t1")
       \/ Resolve(1)
       \/ Get(1, OneBody)
       \/ MakeDirs(1)
       \/ CheckExists(1)
       \/ Remove(1)
       \/ Open(1)
       \/ WriteChunk(1)
       \/ StreamRaises(1)
       \/ Close(1)
       \/ Return(1)
    /\ UNCHANGED <<svars, pvars>>

SpecLinks == LinksInit /\ [][LinksNext]_vars

\* ------------------------------------------------------------------------
\* Properties of download_pdf
\* ------------------------------------------------------------------------
\* the invocation of thread p is past the point where it issues its GET
Past(p) == pc[p] \notin {"idle", "resolve", "get"}

\* the URLs the invocation of thread p has requested
Requested(p) == From(http_log, Len(frame[p].pre_log) + 1)

\* the invocation of thread p has not changed the file system
Untouched(p) ==
    /\ dirs = frame[p].pre_dirs
    /\ names = frame[p].pre_names
    /\ inodes = frame[p].pre_inodes

\* the files stored for (email, title)
FilesFor(path) == {n \in DOMAIN names : n[1] = path[1] /\ n[2][1] = path[2][1]}

IdName == <<"i", "d">>

\* the link was composed with a field named id / with a "d" segment that
\* another segment follows
HasIdField(parts) == \E k \in 1..Len(parts.fields) : parts.fields[k].name = IdName
HasDSegment(parts) == \E k \in 1..(Len(parts.segs) - 1) : parts.segs[k] = <<"d">>

\* C1: after non-overlapping download_pdf calls for the same (owner, title)
\* the path holds exactly one file, whose content is the complete body of
\* the most recent download that was written in full.
C1_LatestDownloadStored ==
    (\A p \in Procs : pc[p] \in {"idle", "done"}) =>
        \A path \in Paths :
            completed[path] # None =>
                /\ Exists(path)
                /\ inodes[names[path]] = completed[path]
                /\ FilesFor(path) = {path}

\* C2: when the GET answers with a status other than 200, download_pdf
\* fails and the directories, the file names and the file contents are
\* what they were when it was called.
C2_Non200TouchesNoFile ==
    \A p \in Procs :
        (Past(p) /\ frame[p].status # 200 /\ frame[p].status # 0) =>
            /\ pc[p] = "done"
            /\ frame[p].outcome = "http_failed"
            /\ Untouched(p)

\* a 404 answer to a re-download of a title whose file holds bytes
C2_Witness ==
    \E p \in Procs :
        /\ pc[p] = "done"
        /\ frame[p].status = 404
        /\ Exists(TargetPath(frame[p].email, frame[p].title))
        /\ inodes[names[TargetPath(frame[p].email, frame[p].title)]] # <<>>

\* the values of the fields "id=V" of the link, in order
RECURSIVE IdValues(_)
IdValues(fields) ==
    IF fields = <<>> THEN <<>>
    ELSE (IF Head(fields).name = IdName /\ Head(fields).eq
          THEN <<Head(fields).value>> ELSE <<>>) \o IdValues(Tail(fields))

\* the non-blank ones among them
RECURSIVE NonBlank(_)
NonBlank(values) ==
    IF values = <<>> THEN <<>>
    ELSE (IF Head(values) # <<>> THEN <<Head(values)>> ELSE <<>>) \o NonBlank(Tail(values))

\* C3 as stated: a link with a parameter id of value V makes download_pdf
\* request exactly the export endpoint combined with V, for some such V,
\* whatever the path is.
C3_AnyIdValueRequested ==
    \A p \in Procs :
        LET values == IdValues(frame[p].parts.fields)
        IN  (Past(p) /\ values # <<>>) =>
                \E k \in 1..Len(values) :
                    Requested(p) = <<ExportEndpoint \o Unquote(values[k])>>

\* C3 as amended: a link with a parameter id of non-blank value makes
\* download_pdf take the first such value V (decoded) as the identifier and
\* request exactly the export endpoint combined with V, also when the path
\* contains /d/.
C3_FirstNonBlankIdRequested ==
    \A p \in Procs :
        LET values == NonBlank(IdValues(frame[p].parts.fields))
        IN  (Past(p) /\ values # <<>>) =>
                /\ frame[p].file_id = Unquote(values[1])
                /\ Requested(p) = <<ExportEndpoint \o Unquote(values[1])>>

\* the link s://h/f/d/X?id=&id=A+B has been requested
C3_Witness ==
    \E p \in Procs :
        /\ Past(p)
        /\ frame[p].drive_link =
              <<"s", ":", "/", "/", "h", "/", "f", "/", "d", "/", "X", "?",
                "i", "d", "=", "&", "i", "d", "=", "A", "+", "B">>
        /\ Requested(p) = <<ExportEndpoint \o <<"A", " ", "B">>>>

\* C4: for a link without a parameter id whose path contains /d/, the
\* identifier is a path segment that immediately follows a d segment,
\* wherever /d/ occurs in the path.
C4_SegmentAfterD ==
    \A p \in Procs :
        LET parts == frame[p].parts
        IN  (Past(p) /\ ~HasIdField(parts) /\ HasDSegment(parts)) =>
                \E k \in 1..(Len(parts.segs) - 1) :
                    /\ parts.segs[k] = <<"d">>
                    /\ frame[p].file_id = parts.segs[k + 1]

\* C5: for a link with neither a parameter id nor /d/ in its path,
\* download_pdf fails as an invalid link, having issued no request and
\* changed nothing in the file system.
C5_NoPatternNoAction ==
    \A p \in Procs :
        LET parts == frame[p].parts
        IN  (Past(p) /\ ~HasIdField(parts) /\ ~HasDSegment(parts)) =>
                /\ pc[p] = "done"
                /\ frame[p].outcome = "invalid_link"
                /\ Falsy(frame[p].file_id)
                /\ Requested(p) = <<>>
                /\ Untouched(p)

\* the link s://h/f/d#/d/B?id=B, whose fragment alone has both patterns,
\* has been refused while a file is stored
C5_Witness ==
    \E p \in Procs :
        /\ pc[p] = "done"
        /\ frame[p].drive_link =
              <<"s", ":", "/", "/", "h", "/", "f", "/", "d",
                "#", "/", "d", "/", "B", "?", "i", "d", "=", "B">>
        /\ frame[p].outcome = "invalid_link"
        /\ names # <<>>

\* ------------------------------------------------------------------------
\* Specifications of the session
\* ------------------------------------------------------------------------
\* SpecSession: sessions are constructed, used and reset, over a few
\* listings and every outcome of the completion request
SessionInit == SInit /\ DownloadIdle /\ SummaryIdle

SessionNext ==
    /\ \/ \E prompt \in Prompts : NewSession(prompt)
       \/ ResetConversation
       \/ \E user_input \in UserInputs, listing \in FewListings, completion \in Completions :
             GetResponse(user_input, listing, completion)
    /\ UNCHANGED <<dvars, pvars>>

SpecSession == SessionInit /\ [][SessionNext]_vars

\* SpecCatalog: the last get_response of a behaviour, over every listing
\* the endpoint can answer with
CatalogInit ==
    /\ system_prompt \in Prompts
    /\ conversation_history = InitialHistory(system_prompt)
    /\ n_gets = MaxRequests - 1
    /\ post_log = <<>>
    /\ last = NoOp
    /\ DownloadIdle
    /\ SummaryIdle

CatalogNext ==
    /\ \/ ResetConversation
       \/ \E listing \in Listings, completion \in FewCompletions :
             GetResponse(<<"p">>, listing, completion)
    /\ UNCHANGED <<dvars, pvars>>

SpecCatalog == CatalogInit /\ [][CatalogNext]_vars

\* ------------------------------------------------------------------------
\* Properties of the session
\* ------------------------------------------------------------------------
\* the listing is a catalog: JSON whose data entries all carry an id
IsCatalog(listing) ==
    /\ listing.kind = "data"
    /\ \A k \in 1..Len(listing.data) : listing.data[k].has_id

\* C6: for a non-empty catalog the completion request names the first
\* entry of the preference list that the catalog contains, wherever it
\* stands in the catalog; it names the catalog's first entry only when the
\* catalog contains no preferred model; the model named is in the catalog.
C6_PreferredModelSelected ==
    (last.op = "get_response" /\ IsCatalog(last.listing) /\ last.listing.data # <<>>) =>
        /\ Len(post_log) = last.pre_posts + 1
        /\ LET data == last.listing.data
               catalog == {data[k].id : k \in 1..Len(data)}
               present == {k \in 1..Len(preferred_models) : preferred_models[k] \in catalog}
               model == post_log[Len(post_log)].model
           IN  /\ model \in catalog
               /\ IF present # {}
                  THEN \E k \in present : /\ model = preferred_models[k]
                                          /\ \A j \in present : k <= j
                  ELSE model = data[1].id

\* the catalog llama3.1-8b, modelA, llama-3.3-70b has selected llama-3.3-70b
C6_Witness ==
    /\ last.op = "get_response"
    /\ last.listing.kind = "data"
    /\ last.listing.data = <<[has_id |-> TRUE, id |-> "llama3.1-8b"],
                             [has_id |-> TRUE, id |-> "modelA"],
                             [has_id |-> TRUE, id |-> "llama-3.3-70b"]>>
    /\ post_log # <<>>
    /\ post_log[Len(post_log)].model = "llama-3.3-70b"

\* C7: when the listing is empty, raises or cannot be read, get_response
\* returns None, issues no completion request and appends no assistant turn.
C7_EmptyCatalogNoCompletion ==
    (last.op = "get_response" /\ (~IsCatalog(last.listing) \/ last.listing.data = <<>>)) =>
        /\ last.ret = None
        /\ Len(post_log) = last.pre_posts
        /\ conversation_history[Len(conversation_history)] = UserTurn(last.user_input)

\* a listing whose body is not JSON has ended a get_response
C7_Witness ==
    /\ last.op = "get_response"
    /\ last.listing.kind = "notjson"
    /\ last.ret = None
    /\ post_log = <<>>

\* the completion request of the operation failed: it raised or was
\* answered with a status other than 200
FailedAttempt(l) ==
    /\ l.op = "get_response"
    /\ \/ l.completion.kind = "raise"
       \/ l.completion.kind = "response" /\ l.completion.status # 200

\* how many turns of h equal t
Count(h, t) == Cardinality({k \in 1..Len(h) : h[k] = t})

\* how many turns of h have the role r
CountRole(h, r) == Cardinality({k \in 1..Len(h) : h[k].role = r})

\* the step is a get_response
IsGetResponse == n_gets' = n_gets + 1

\* C8: a failed completion attempt appends no assistant turn and leaves its
\* user turn in the history, and a retry of the same request on the same
\* session appends no second copy of that user turn.
C8_RetryAddsNoUserTurn ==
    [][ /\ (IsGetResponse /\ FailedAttempt(last')) =>
              /\ CountRole(conversation_history', "assistant")
                    = CountRole(conversation_history, "assistant")
              /\ conversation_history'[Len(conversation_history')] = UserTurn(last'.user_input)
        /\ (IsGetResponse /\ FailedAttempt(last) /\ last'.user_input = last.user_input) =>
              Count(conversation_history', UserTurn(last.user_input))
                 = Count(conversation_history, UserTurn(last.user_input))
      ]_vars

\* the first turn is the only system turn
OneSystemTurn(h) ==
    /\ h # <<>>
    /\ h[1].role = "system"
    /\ \A k \in 2..Len(h) : h[k].role # "system"

\* C9: the history always starts with its only system turn; a get_response
\* appends one user turn and, only when the completion answered 200, one
\* assistant turn directly after it, and leaves the earlier turns as they
\* were.
C9_HistoryGrowsByAppending ==
    /\ []OneSystemTurn(conversation_history)
    /\ [][ IsGetResponse =>
              LET user == [role |-> "user", content |-> last'.user_input]
              IN  \/ conversation_history' = Append(conversation_history, user)
                  \/ /\ last'.completion.kind = "response"
                     /\ last'.completion.status = 200
                     /\ conversation_history' =
                           conversation_history
                           \o <<user, [role |-> "assistant", content |-> last'.ret]>>
         ]_vars

\* a failed and then a successful get_response: system, user, user, assistant
C9_Witness ==
    /\ Len(conversation_history) = 4
    /\ [k \in 1..4 |-> conversation_history[k].role] = <<"system", "user", "user", "assistant">>

\* C10: after reset_conversation the history is the system turn with the
\* session's system prompt and nothing else.
C10_ResetLeavesSystemTurn ==
    last.op = "reset" =>
        conversation_history = <<[role |-> "system", content |-> system_prompt]>>

\* a reset after a completion request was issued on a session built with prompt T
C10_Witness ==
    /\ last.op = "reset"
    /\ system_prompt = <<"T">>
    /\ n_gets = MaxRequests
    /\ post_log # <<>>

\* ------------------------------------------------------------------------
\* Specifications of the summary
\* ------------------------------------------------------------------------
\* the texts summarize_pdf_with_cerebras is called on directly: none, the
\* empty one, whitespace only, and texts around 50 characters with and
\* without whitespace around them
SummarizeTexts ==
    { None, <<>>, [k \in 1..60 |-> " "], Filler(49), Filler(50),
      <<" ">> \o Filler(49) \o <<"\n">>, <<" ">> \o Filler(50) }

\* SpecSummary: one invocation of get_ai_summary, of
\* extract_text_with_pdfminer or of summarize_pdf_with_cerebras, over every
\* file of Files and every outcome of the listing and of the completion
SummaryInit == DownloadIdle /\ SessionIdle /\ SummaryIdle

SummaryNext ==
    /\ \/ \E file \in Files : GetAiSummary(file)
       \/ \E file \in Files : CallExtract(file)
       \/ \E pdf_text \in SummarizeTexts : CallSummarize(pdf_text, 100)
       \/ GCheckExists
       \/ EPrecheck
       \/ EExtract
       \/ GTextCheck
       \/ SLengthCheck
       \/ SBuild
       \/ \E listing \in FewListings : SList(listing)
       \/ \E completion \in Completions : SPost(completion)
       \/ SSanitize
       \/ STruncate
       \/ GSummaryCheck
    /\ UNCHANGED dvars

SpecSummary == SummaryInit /\ [][SummaryNext]_vars

\* ------------------------------------------------------------------------
\* Properties of extract_text_with_pdfminer
\* ------------------------------------------------------------------------
\* extract_text_with_pdfminer, called on its own, has returned
Extracted == job.top = "extract" /\ job.pc = "done"

\* C14: the PDF text extractor is called only on a file that exists and
\* has at least one byte; on a zero-byte file and on a missing path
\* extract_text_with_pdfminer fails without having called it.
C14_ExtractorNeverOnEmptyFile ==
    /\ job.extractor_calls > 0 => job.file.exists /\ job.file.size > 0
    /\ Extracted /\ (~job.file.exists \/ job.file.size = 0)
          => job.ret = None /\ job.extractor_calls = 0

\* a zero-byte file was refused without a call of the extractor
C14_Witness ==
    /\ Extracted
    /\ job.file.exists /\ job.file.size = 0
    /\ job.ret = None /\ job.extractor_calls = 0

IsNul(c) == c = Nul

\* the text measured: the extractor's output without its null bytes and
\* without the whitespace around it
Cleaned(raw) == Strip(SelectSeq(raw, LAMBDA c : ~IsNul(c)))

\* C15: the text is measured after the null bytes are removed and the
\* surrounding whitespace is trimmed: 9 characters or fewer fail, and 10
\* or more are accepted and returned, cleaned.
C15_TenCharactersAccepted ==
    Extracted /\ job.extractor_calls > 0 /\ job.file.raw # Raises =>
        /\ Len(Cleaned(job.file.raw)) <= 9 => job.ret = None
        /\ Len(Cleaned(job.file.raw)) >= 10 => job.ret = Cleaned(job.file.raw)

\* a text of 10 characters was accepted although the extractor's output
\* was longer, and a text of 9 characters refused
C15_Witness ==
    /\ Extracted
    /\ job.file.raw # Raises
    /\ Len(job.file.raw) > 10
    /\ Len(Cleaned(job.file.raw)) = 10
    /\ job.ret = Cleaned(job.file.raw)

\* SpecReply: one invocation of summarize_pdf_with_cerebras on a text long
\* enough, over every word budget up to MaxWords and every reply of
\* ReplyTexts
ReplyNext ==
    /\ \/ \E max_words \in 0..MaxWords : CallSummarize(Filler(50), max_words)
       \/ SLengthCheck
       \/ SBuild
       \/ \E listing \in OneListing : SList(listing)
       \/ \E completion \in ReplyCompletions : SPost(completion)
       \/ SSanitize
       \/ STruncate
    /\ UNCHANGED dvars

SpecReply == SummaryInit /\ [][ReplyNext]_vars

\* SpecClip: one invocation of summarize_pdf_with_cerebras on the texts of
\* LongTexts, over every outcome of the listing and of the completion
ClipNext ==
    /\ \/ \E pdf_text \in LongTexts, max_words \in {100, 150} :
             CallSummarize(pdf_text, max_words)
       \/ SLengthCheck
       \/ SBuild
       \/ \E listing \in FewListings : SList(listing)
       \/ \E completion \in Completions : SPost(completion)
       \/ SSanitize
       \/ STruncate
    /\ UNCHANGED dvars

SpecClip == SummaryInit /\ [][ClipNext]_vars

\* ------------------------------------------------------------------------
\* Properties of summarize_pdf_with_cerebras
\* ------------------------------------------------------------------------
\* summarize_pdf_with_cerebras, called on its own, has returned after its
\* session received a reply
Summarized ==
    /\ job.top = "summarize" /\ job.pc = "done"
    /\ job.actual_response # None

\* the positions of s where a word starts, and the number of words of s
WordStarts(s) ==
    {k \in 1..Len(s) : s[k] \notin Whitespace /\ (k = 1 \/ s[k - 1] \in Whitespace)}
WordCount(s) == Cardinality(WordStarts(s))

\* the n-th word of s
Word(s, n) ==
    LET b == CHOOSE k \in WordStarts(s) :
                 Cardinality({j \in WordStarts(s) : j < k}) = n - 1
        e == CHOOSE k \in b..Len(s) :
                 /\ k = Len(s) \/ s[k + 1] \in Whitespace
                 /\ \A j \in b..k : s[j] \notin Whitespace
    IN  SubSeq(s, b, e)

\* s is n words with exactly one space between two words and nothing around
SingleSpaced(s, n) ==
    /\ WordCount(s) = n
    /\ \A k \in 1..Len(s) : s[k] \in Whitespace =>
          /\ s[k] = " "
          /\ 1 < k /\ k < Len(s)
          /\ s[k - 1] \notin Whitespace /\ s[k + 1] \notin Whitespace

\* what the word budget makes of reply
WithinBudget(reply, max_words, summary) ==
    /\ WordCount(summary) <= max_words
    /\ IF WordCount(reply) > max_words
       THEN /\ SingleSpaced(summary, max_words)
            /\ \A n \in 1..max_words : Word(summary, n) = Word(reply, n)
       ELSE summary = reply

\* C11 as stated: for every sanitized reply and every word budget the
\* summary returned has at most max_words words: the first max_words words
\* of the reply joined by single spaces when the reply has more, and the
\* reply unchanged otherwise.
C11_EveryReplyWithinBudget ==
    Summarized => WithinBudget(job.actual_response, job.max_words, job.ret)

\* C11 as amended: the same for every sanitized reply that is not empty;
\* for the empty reply summarize_pdf_with_cerebras returns None.
C11_NonEmptyReplyWithinBudget ==
    Summarized =>
        IF job.actual_response = <<>>
        THEN job.ret = None
        ELSE WithinBudget(job.actual_response, job.max_words, job.ret)

\* a reply of more words than the budget, separated by a newline, was cut
\* to the budget
C11_Witness ==
    /\ Summarized
    /\ WordCount(job.actual_response) > job.max_words
    /\ job.max_words = 2
    /\ Contains(job.actual_response, <<"\n">>)
    /\ job.ret # job.actual_response
    /\ WordCount(job.ret) = 2

\* the positions where the marker starts in s
MarkerAt(s) == {i \in 1..(Len(s) - 7) : /\ s[i] = "<" /\ s[i + 1] = "/" /\ s[i + 2] = "t"
                                        /\ s[i + 3] = "h" /\ s[i + 4] = "i" /\ s[i + 5] = "n"
                                        /\ s[i + 6] = "k" /\ s[i + 7] = ">"}

\* t is s without the whitespace around it
Trimmed(s, t) ==
    /\ t = <<>> \/ (t[1] \notin Whitespace /\ t[Len(t)] \notin Whitespace)
    /\ \E a \in 0..(Len(s) - Len(t)) :
          /\ SubSeq(s, a + 1, a + Len(t)) = t
          /\ \A k \in (1..a) \cup ((a + Len(t) + 1)..Len(s)) : s[k] \in Whitespace

\* C12: a raw reply that contains the marker </think> is answered by what
\* follows the (first) marker, trimmed of the whitespace around it; a raw
\* reply without the marker is returned unchanged, not trimmed.
C12_ReplyAfterMarker ==
    job.actual_response # None =>
        IF MarkerAt(job.full_response) # {}
        THEN \E i \in MarkerAt(job.full_response) :
                /\ \A j \in MarkerAt(job.full_response) : i <= j
                /\ Trimmed(From(job.full_response, i + 8), job.actual_response)
        ELSE job.actual_response = job.full_response

\* the text before a marker was dropped and what followed was trimmed
C12_Witness ==
    /\ job.full_response = <<"w">> \o Marker \o <<" ", "w", "\n">>
    /\ job.actual_response = <<"w">>

\* the document part of the user turn: what stands between the
\* instructions and the closing line of the prompt
DocumentPart(content, max_words) ==
    SubSeq(content,
           Len(PromptHead) + Len(Decimal(max_words)) + Len(PromptMiddle) + 1,
           Len(content) - Len(PromptTail))

\* C13: the document part of the user turn is the first 8000 characters of
\* a text longer than that and the whole of a text that is not, and the
\* text the caller holds stays what it was.
C13_ClippedTo8000 ==
    /\ [](job.top = "summarize" /\ job.sessions > 0 =>
            /\ conversation_history[2].role = "user"
            /\ DocumentPart(conversation_history[2].content, job.max_words) =
                  IF Len(job.pdf_text) > 8000
                  THEN SubSeq(job.pdf_text, 1, 8000)
                  ELSE job.pdf_text)
    /\ [][job.top = "summarize" => job'.pdf_text = job.pdf_text]_vars

\* a text of 9000 characters went into the completion request as its
\* first 8000, and the caller still holds the 9000
C13_Witness ==
    /\ job.top = "summarize"
    /\ Len(job.pdf_text) = 9000
    /\ post_log # <<>>
    /\ Len(DocumentPart(post_log[1].messages[2].content, job.max_words)) = 8000

\* ------------------------------------------------------------------------
\* Properties of a failed write
\* ------------------------------------------------------------------------
\* the write of thread p failed after it deleted the old file and wrote
\* at least one chunk
FailedMidBody(p) ==
    /\ pc[p] = "done" /\ frame[p].outcome = "error"
    /\ TargetPath(frame[p].email, frame[p].title) \in DOMAIN frame[p].pre_names
    /\ frame[p].fd # 0 /\ frame[p].pos > 0

\* C16: when the write fails after the old file was deleted and some
\* chunks were written, no file is left at the target path, and the caller
\* of download_pdf does not get what it gets after a successful download.
C16_FailedWriteLeavesNoFile ==
    \A p \in Procs :
        FailedMidBody(p) =>
            /\ ~Exists(TargetPath(frame[p].email, frame[p].title))
            /\ ReturnValue("error") # ReturnValue("stored")
            /\ CreateNewPostResult(ReturnValue("error")) # CreateNewPostResult(ReturnValue("stored"))

\* ------------------------------------------------------------------------
\* Single attempts
\* ------------------------------------------------------------------------
\* SpecAttempts: the last download_pdf invocation of a behaviour and one
\* invocation of summarize_pdf_with_cerebras, each in its own request, over
\* every outcome of the download GET, of the listing and of the completion
AttemptsInit == LinksInit

AttemptsNext ==
    \/ /\ \/ \E parts \in FewParts, title \in Titles : Start(1, FewParts, parts, "e1", title)
          \/ Resolve(1)
          \/ Get(1, OneBody)
          \/ MakeDirs(1)
          \/ CheckExists(1)
          \/ Remove(1)
          \/ Open(1)
          \/ WriteChunk(1)
          \/ StreamRaises(1)
          \/ Close(1)
          \/ Return(1)
       /\ UNCHANGED <<svars, pvars>>
    \/ /\ \/ CallSummarize(Filler(50), 100)
          \/ SLengthCheck
          \/ SBuild
          \/ \E listing \in FewListings : SList(listing)
          \/ \E completion \in Completions : SPost(completion)
          \/ SSanitize
          \/ STruncate
       /\ UNCHANGED dvars

SpecAttempts == AttemptsInit /\ [][AttemptsNext]_vars

\* the stage named was entered by the summary under way
Entered(stage) == \E k \in 1..Len(job.stages) : job.stages[k] = stage

\* C18: nothing is retried: an invocation of download_pdf issues at most
\* one GET, and an invocation of get_response at most one listing GET and
\* at most one completion POST; after a failed request the invocation
\* has ended.
C18_SingleAttempt ==
    /\ \A p \in Procs : pc[p] # "idle" =>
          /\ Len(Requested(p)) <= 1
          /\ pc[p] = "get" => Requested(p) = <<>>
          /\ frame[p].status \notin {0, 200} => pc[p] = "done"
    /\ job.top = "summarize" =>
          /\ n_gets <= 1 /\ Len(post_log) <= 1
          /\ job.pc \in {"length_check", "build", "list"} => n_gets = 0
          /\ job.pc \in {"length_check", "build", "list", "post"} => post_log = <<>>
          /\ Entered("list") /\ GetAvailableModels(job.listing) = <<>> => job.pc = "done"
          /\ Entered("post") /\ ~Readable(job.completion) => job.pc = "done"

\* the download GET was answered 404 and the completion POST 500: one
\* request of each kind was issued and both invocations have ended
C18_Witness ==
    /\ pc[1] = "done" /\ frame[1].status = 404 /\ Len(Requested(1)) = 1
    /\ job.pc = "done" /\ job.completion.status = 500
    /\ n_gets = 1 /\ Len(post_log) = 1

\* ------------------------------------------------------------------------
\* Properties of get_ai_summary
\* ------------------------------------------------------------------------
\* the stages of a summary, in the order of the claim
StageOrder == <<"extract", "user_turn", "list", "post", "sanitize", "truncate">>

\* the extraction of the file of the summary under way succeeds
ExtractionSucceeds ==
    /\ job.file.exists /\ job.file.size > 0
    /\ job.file.raw # Raises
    /\ Len(Cleaned(job.file.raw)) >= 10

\* C17: in one get_ai_summary invocation the stages entered are an initial
\* part of the order extraction, user turn, listing, completion,
\* sanitising, truncation; a stage is entered only when the one before it
\* succeeded; the requests are issued in their stages only; and the
\* payload is the summary exactly when all six stages were entered, an
\* error otherwise.
C17_StagesInOrder ==
    job.top = "get_ai_summary" =>
        /\ Len(job.stages) <= 6
        /\ job.stages = SubSeq(StageOrder, 1, Len(job.stages))
        /\ Entered("user_turn") => ExtractionSucceeds
        /\ Entered("list") =>
              /\ Len(conversation_history) >= 2
              /\ conversation_history[2].role = "user"
        /\ Entered("post") => IsCatalog(job.listing) /\ job.listing.data # <<>>
        /\ Entered("sanitize") =>
              /\ job.completion.kind = "response" /\ job.completion.status = 200
              /\ job.completion.json \in {"content", "nocontent"}
        /\ Entered("truncate") => job.actual_response \notin {None, <<>>}
        /\ n_gets = (IF Entered("list") THEN 1 ELSE 0)
        /\ Len(post_log) = (IF Entered("post") THEN 1 ELSE 0)
        /\ job.pc = "done" =>
              IF job.stages = StageOrder
              THEN job.payload.status = 200 /\ job.payload.summary # None
              ELSE job.payload.status \in {404, 500} /\ job.payload.summary = None

\* the listing failed: the invocation ended with an error payload after
\* three stages and no completion was requested
C17_Witness ==
    /\ job.top = "get_ai_summary" /\ job.pc = "done"
    /\ job.stages = <<"extract", "user_turn", "list">>
    /\ job.payload.status = 500
    /\ n_gets = 1 /\ post_log = <<>>

\* the text handed to summarize_pdf_with_cerebras has fewer than 50
\* characters once trimmed (None has none)
Below50 == job.pdf_text = None \/ Len(Strip(job.pdf_text)) < 50

\* C20: on a text of fewer than 50 characters, whitespace around it not
\* counted, summarize_pdf_with_cerebras returns None without creating a
\* session and without a listing or completion request; get_ai_summary
\* answers a text of 10 to 49 characters with an error payload.
C20_Below50NoSummary ==
    /\ job.top \in {"summarize", "get_ai_summary"}
    /\ job.pc \in {"build", "list", "post", "sanitize", "truncate", "summary_check", "done"}
    /\ Below50
    => /\ job.sessions = 0 /\ ~Entered("user_turn")
       /\ n_gets = 0 /\ post_log = <<>>
       /\ conversation_history = InitialHistory(system_prompt)
       /\ job.pc \in {"summary_check", "done"}
       /\ job.pc = "done" /\ job.top = "summarize" => job.ret = None
       /\ job.pc = "done" /\ job.top = "get_ai_summary" =>
              job.payload.status \in {404, 500} /\ job.payload.summary = None

\* a text of 49 characters, accepted by the extraction, ended
\* get_ai_summary with an error payload and no session
C20_Witness ==
    /\ job.top = "get_ai_summary" /\ job.pc = "done"
    /\ job.pdf_text # None /\ Len(job.pdf_text) = 49
    /\ job.payload.status = 500
    /\ job.sessions = 0 /\ n_gets = 0

\* ------------------------------------------------------------------------
\* Overlapping downloads
\* ------------------------------------------------------------------------
\* the two request threads whose download_pdf calls overlap
RaceProcs == {1, 2}

\* the bodies of the two downloads: two chunks, or one
RaceBodies == {<< <<"a">>, <<"a">> >>, << <<"b">> >>}

\* SpecRace: the last two download_pdf invocations of a behaviour, for the
\* same owner and title, run by two threads whose steps interleave freely
RaceInit ==
    /\ pc = [p \in Procs |-> "idle"]
    /\ frame = [p \in Procs |-> NoFrame]
    /\ ncalls = MaxCalls - 2
    /\ \/ /\ dirs = {} /\ names = <<>> /\ inodes = <<>> /\ http_log = <<>>
          /\ completed = [path \in Paths |-> None]
       \/ StoredBefore
    /\ SessionIdle
    /\ SummaryIdle

RaceNext ==
    /\ \E p \in RaceProcs :
          \/ \E parts \in FewParts : Start(p, FewParts, parts, "e1", "t1")
          \/ Resolve(p)
          \/ Get(p, RaceBodies)
          \/ MakeDirs(p)
          \/ CheckExists(p)
          \/ Remove(p)
          \/ RemoveDenied(p)
          \/ Open(p)
          \/ WriteChunk(p)
          \/ StreamRaises(p)
          \/ Close(p)
          \/ Return(p)
    /\ UNCHANGED <<svars, pvars>>

SpecRace == RaceInit /\ [][RaceNext]_vars

\* thread p is inside download_pdf, between the exists-check and the close
Storing(p) == pc[p] \in {"exists", "remove", "open", "write"}

\* C19: no lock serialises two overlapping download_pdf calls for the same
\* owner and title: while one call is between its exists-check and its
\* close, the other can take its own next step (check, delete, open,
\* write, close) at once; and every chunk written lands at the writer's
\* own position in the file whatever the other call wrote there, so the
\* bytes written last decide the content.
C19_Unserialised ==
    /\ [](\A p \in RaceProcs, q \in RaceProcs :
             p # q /\ Storing(p) /\ Storing(q) =>
                /\ pc[p] = "exists" => ENABLED CheckExists(p)
                /\ pc[p] = "remove" => ENABLED Remove(p)
                /\ pc[p] = "open" => ENABLED Open(p)
                /\ pc[p] = "write" /\ frame[p].stream # <<>> => ENABLED WriteChunk(p)
                /\ pc[p] = "write" /\ frame[p].stream = <<>> => ENABLED Close(p))
    /\ [][\A p \in RaceProcs :
             pc[p] = "write" /\ frame'[p].pos > frame[p].pos =>
                SubSeq(inodes'[frame[p].fd], frame[p].pos + 1, frame'[p].pos)
                   = Head(frame[p].stream)]_vars

\* both calls ran to their end without an error, and the file is the
\* complete body of neither
C19_Witness ==
    /\ \A p \in RaceProcs : pc[p] = "done" /\ frame[p].outcome = "stored"
    /\ Exists(TargetPath("e1", "t1"))
    /\ \A p \in RaceProcs :
          inodes[names[TargetPath("e1", "t1")]] # Flatten(frame[p].body)
====
